---- MODULE Spec2Model ----
(***************************************************************************)
(* A model of the zhlint core found in this repository:                    *)
(*   - replaceBlocks, the document reassembler (src/src/replace-block.ts)  *)
(*   - the hexo masking pass                   (src/src/hypers/hexo.ts)    *)
(*   - the markdown structural extractor       (src/unnamed/part_001)      *)
(*   - the punctuation-width rule handler      (src/src/replace-block.ts)  *)
(* JavaScript strings are sequences of one-character strings; offsets are  *)
(* 0-based as in the source.                                               *)
(***************************************************************************)
EXTENDS Integers, Sequences, FiniteSets, TLC

VARIABLES
  pc,        \* the stage the run is at
  doc,       \* the markdown structure of the text the run was given
  str,       \* replaceBlocks: its first argument
  inBlocks,  \* replaceBlocks: its second argument
  out,       \* replaceBlocks: its return value
  input,     \* the text the run was given
  data,      \* the ParsedStatus handed from one hyper parser to the next
  options,   \* the rule options the handler was generated with
  group,     \* the token sequence the handler walks
  tokenIndex \* the position of the next token to handle

vars == <<pc, doc, str, inBlocks, out, input, data, options, group, tokenIndex>>

(***************************************************************************)
(* Bounds of the reassembler's inputs.                                     *)
(***************************************************************************)
MaxDocLen == 4
MaxBlocks == 2
\* Bound of the masking pass's inputs: segments per document.
MaxSegments == 3
\* Bounds of the extractor's inputs: inline nodes of a paragraph, and blocks
\* of a document.
MaxMarks == 4
MaxFlow == 2

Min(a, b) == IF a < b THEN a ELSE b
Max(a, b) == IF a < b THEN b ELSE a

\* String.prototype.substring: both indices are clamped to [0, length] and
\* swapped when the first exceeds the second.
Substring(s, a, b) ==
  LET ca == Max(0, Min(a, Len(s)))
      cb == Max(0, Min(b, Len(s)))
  IN  SubSeq(s, Min(ca, cb) + 1, Max(ca, cb))

\* Array.prototype.join('') over the values of a list of pieces.
RECURSIVE JoinValues(_)
JoinValues(ps) ==
  IF ps = <<>> THEN <<>> ELSE Head(ps).value \o JoinValues(Tail(ps))

(***************************************************************************)
(* replaceBlocks (replace-block.ts:16-73)                                  *)
(***************************************************************************)
isBlock(piece) == ~("nonBlock" \in DOMAIN piece)

NonBlock(s, from, to) ==
  [nonBlock |-> TRUE, start |-> from, end |-> to, value |-> Substring(s, from, to)]

\* "non-block piece before the current block"
nonBlockDropped(s, nextStart, start) == <<>>

nonBlockShifted(s, nextStart, start) ==
  IF nextStart < start
    THEN <<[NonBlock(s, nextStart, start) EXCEPT !.value = Substring(s, nextStart + 1, start + 1)]>>
    ELSE <<>>

nonBlockBefore(s, nextStart, start) ==
  IF nextStart < start THEN <<NonBlock(s, nextStart, start)>> ELSE <<>>

\* "Tailing non-block piece"
tailingDropped(s, isLast, end) == <<>>

tailingNonBlock(s, isLast, end) ==
  IF isLast /\ end # Len(s) THEN <<NonBlock(s, end, Len(s))>> ELSE <<>>

\* One call of the reducer: the pieces after the block at `index` (1-based here).
reducer(s, blocks, pieces, index) ==
  LET block     == blocks[index]
      nextStart == IF Len(pieces) > 0 THEN pieces[Len(pieces)].end ELSE 0
  IN  pieces \o nonBlockBefore(s, nextStart, block.start)
             \o <<block>>
             \o tailingNonBlock(s, index = Len(blocks), block.end)

RECURSIVE reduce(_, _, _, _)
reduce(s, blocks, pieces, index) ==
  IF index > Len(blocks) THEN pieces
  ELSE reduce(s, blocks, reducer(s, blocks, pieces, index), index + 1)

replaceBlocks(s, blocks) ==
  IF Len(blocks) = 0
    THEN [value |-> s,
          pieces |-> <<[value |-> s, start |-> 0, end |-> Len(s), nonBlock |-> TRUE]>>]
    ELSE LET pieces == reduce(s, blocks, <<>>, 1)
         IN  [value |-> JoinValues(pieces), pieces |-> pieces]

(***************************************************************************)
(* Inputs of the reassembler: a document of distinct characters and a list *)
(* of blocks inside it, pairwise non-overlapping, in any order.  A block's *)
(* value is its fixed text: either the original text or a changed one.     *)
(***************************************************************************)
Alphabet == <<"a", "b", "c", "d", "e", "f", "g", "h">>
Documents == { SubSeq(Alphabet, 1, n) : n \in 0..MaxDocLen }
FixedText == <<"X", "Y">>

BlockOf(s, a, b, kind) ==
  [start |-> a, end |-> b,
   value |-> IF kind = "same" THEN Substring(s, a, b) ELSE FixedText]

Disjoint(x, y) == x.end <= y.start \/ y.end <= x.start

NonOverlapping(blocks) ==
  \A i, j \in 1..Len(blocks) : i # j => Disjoint(blocks[i], blocks[j])

\* Document order: every block ends before the next one starts.
InDocumentOrder(blocks) ==
  \A i \in 1..(Len(blocks) - 1) : blocks[i].end <= blocks[i + 1].start

WithinDocument(s, blocks) ==
  \A i \in 1..Len(blocks) :
    0 <= blocks[i].start /\ blocks[i].start <= blocks[i].end /\ blocks[i].end <= Len(s)

BlockChoices(s) ==
  { BlockOf(s, a, b, k) : <<a, b, k>> \in
      { t \in (0..Len(s)) \X (0..Len(s)) \X {"same", "fixed"} : t[1] <= t[2] } }

BlockLists(s) ==
  UNION { { bs \in [1..n -> BlockChoices(s)] : NonOverlapping(bs) } : n \in 0..MaxBlocks }

NoOptions ==
  [halfwidthPunctuation |-> <<>>, fullwidthPunctuation |-> <<>>,
   adjustedFullwidthPunctuation |-> <<>>]

NoRule == options = NoOptions /\ group = <<>> /\ tokenIndex = 1

NoStatus == [value |-> <<>>, modifiedValue |-> <<>>, ignoredByParsers |-> <<>>, blocks |-> <<>>]
NoOutput == [value |-> <<>>, pieces |-> <<>>]

InitReplace ==
  /\ pc = "replace"
  /\ str \in Documents
  /\ inBlocks \in BlockLists(str)
  /\ out = NoOutput
  /\ input = <<>>
  /\ data = NoStatus
  /\ doc = <<>>
  /\ NoRule

ReplaceBlocks ==
  /\ pc = "replace"
  /\ out' = replaceBlocks(str, inBlocks)
  /\ pc' = "replaced"
  /\ UNCHANGED <<str, inBlocks, input, data, doc, options, group, tokenIndex>>

NextReplace == ReplaceBlocks

SpecReplace == InitReplace /\ [][NextReplace]_vars

(***************************************************************************)
(* The hexo masking pass (hexo.ts:1-27).                                   *)
(*                                                                         *)
(* matcher = /\{% ([^ ]+?) [^%]*?%\}(?:\n|\{(?!%)|[^{])*?\{% end(?:\1) %\}/g  *)
(*                                                                         *)
(* Every quantifier of the pattern is forced: the name `[^ ]+?` is followed*)
(* by a literal space, so it is the run up to the first space; `[^%]*?`    *)
(* cannot pass a `%`, so it ends at the first `%`, which must start `%}`;  *)
(* the body `(?:\n|\{(?!%)|[^{])*?` consumes any character except a `{`    *)
(* followed by `%`, so the closing tag must sit at the first `{%` after    *)
(* the opening tag.  With at most one way to match at a position, the      *)
(* backtracking search finds that one or fails.                            *)
(***************************************************************************)
LF == "\n"

\* The least index i >= from with s[i] = c, or 0.
IndexOfChar(s, c, from) ==
  LET hits == { i \in from..Len(s) : s[i] = c }
  IN  IF hits = {} THEN 0 ELSE CHOOSE i \in hits : \A j \in hits : i <= j

\* The least index i >= from where `{%` starts, or 0.
IndexOfTagOpen(s, from) ==
  LET hits == { i \in from..(Len(s) - 1) : s[i] = "{" /\ s[i + 1] = "%" }
  IN  IF hits = {} THEN 0 ELSE CHOOSE i \in hits : \A j \in hits : i <= j

StartsWithAt(s, lit, p) ==
  /\ p >= 1
  /\ p + Len(lit) - 1 <= Len(s)
  /\ SubSeq(s, p, p + Len(lit) - 1) = lit

NoMatch == [found |-> FALSE, length |-> 0, name |-> <<>>]

\* `\{% end(?:\1) %\}`: the closing tag carries the captured name.
closingTagAnyName(name) == <<"{", "%", " ", "e", "n", "d">>

closingTag(name) == <<"{", "%", " ", "e", "n", "d">> \o name \o <<" ", "%", "}">>

\* The match of `matcher` that starts at 1-based position p of s, if any.
matchAt(s, p) ==
  IF ~StartsWithAt(s, <<"{", "%", " ">>, p) THEN NoMatch
  ELSE
    LET sp == IndexOfChar(s, " ", p + 3)
    IN  IF sp <= p + 3 THEN NoMatch
        ELSE
          LET name == SubSeq(s, p + 3, sp - 1)
              pct  == IndexOfChar(s, "%", sp + 1)
          IN  IF pct = 0 \/ ~StartsWithAt(s, <<"%", "}">>, pct) THEN NoMatch
              ELSE
                LET close == IndexOfTagOpen(s, pct + 2)
                IN  IF close = 0 \/ ~StartsWithAt(s, closingTag(name), close) THEN NoMatch
                    ELSE [found |-> TRUE,
                          length |-> close + Len(closingTag(name)) - p,
                          name |-> name]

\* '@'.repeat(length)
fillerOfOne(length) == <<"@">>

filler(length) == [i \in 1..length |-> "@"]

\* `hexo-${name}`
metaOf(name) == <<"h", "e", "x", "o", "-">> \o name

\* The replacer callback's push onto data.ignoredByParsers; index is 0-based.
ignoredCase(raw, name, index) ==
  [name |-> name, meta |-> metaOf(name), index |-> index,
   length |-> Len(raw), originValue |-> raw]

\* String.prototype.replace with a global pattern: scan from p, replace each
\* match, resume after it.  Returns the new text and the pushed records.
RECURSIVE replaceAll(_, _)
replaceAll(s, p) ==
  IF p > Len(s) THEN [text |-> <<>>, pushed |-> <<>>]
  ELSE
    LET m == matchAt(s, p)
    IN  IF m.found
          THEN LET raw  == SubSeq(s, p, p + m.length - 1)
                   rest == replaceAll(s, p + m.length)
               IN  [text   |-> filler(Len(raw)) \o rest.text,
                    pushed |-> <<ignoredCase(raw, m.name, p - 1)>> \o rest.pushed]
          ELSE LET rest == replaceAll(s, p + 1)
               IN  [text |-> <<s[p]>> \o rest.text, pushed |-> rest.pushed]

hexoParser(d) ==
  LET r == replaceAll(d.modifiedValue, 1)
  IN  [d EXCEPT !.modifiedValue = r.text,
                !.ignoredByParsers = d.ignoredByParsers \o r.pushed]

(***************************************************************************)
(* Inputs of the masking pass: documents made of a few segments, among     *)
(* them opening and closing tags of two names.                             *)
(***************************************************************************)
Segments ==
  { <<"{", "%", " ", "x", " ", "%", "}">>,
    <<"{", "%", " ", "y", " ", "k", " ", "%", "}">>,
    <<"{", "%", " ", "e", "n", "d", "x", " ", "%", "}">>,
    <<"{", "%", " ", "e", "n", "d", "y", " ", "%", "}">>,
    <<"a", ",">>,
    <<LF>>,
    <<"{">>,
    <<"%">>,
    <<" ">> }

RECURSIVE Concat(_)
Concat(segs) == IF segs = <<>> THEN <<>> ELSE Head(segs) \o Concat(Tail(segs))

SegmentDocuments ==
  UNION { { Concat(segs) : segs \in [1..n -> Segments] } : n \in 0..MaxSegments }

InitHexo ==
  /\ pc = "hexo"
  /\ input \in SegmentDocuments
  /\ data = [value |-> input, modifiedValue |-> input,
             ignoredByParsers |-> <<>>, blocks |-> <<>>]
  /\ str = <<>>
  /\ inBlocks = <<>>
  /\ out = NoOutput
  /\ doc = <<>>
  /\ NoRule

HexoParser ==
  /\ pc = "hexo"
  /\ data' = hexoParser(data)
  /\ pc' = "masked"
  /\ UNCHANGED <<str, inBlocks, out, input, doc, options, group, tokenIndex>>

NextHexo == HexoParser

SpecHexo == InitHexo /\ [][NextHexo]_vars

(***************************************************************************)
(* Claims about the masking pass, checked under SpecHexo.                  *)
(***************************************************************************)
Masked == pc = "masked"

InSomeSpan(spans, i) ==
  \E k \in 1..Len(spans) : spans[k].index < i /\ i <= spans[k].index + spans[k].length

\* C2: the masked text has exactly the length of the input; every match is
\* replaced by filler of its own length, so every character outside a match
\* keeps its position, and the original text (data.value) is unchanged.
C2_LengthPreserved ==
  Masked =>
    /\ Len(data.modifiedValue) = Len(input)
    /\ data.value = input
    /\ \A k \in 1..Len(data.ignoredByParsers) :
          LET span == data.ignoredByParsers[k]
          IN  /\ span.length = Len(span.originValue)
              /\ span.index + span.length <= Len(input)
              /\ \A i \in (span.index + 1)..(span.index + span.length) :
                    data.modifiedValue[i] = "@"
    /\ \A i \in 1..Len(input) :
          ~InSomeSpan(data.ignoredByParsers, i) => data.modifiedValue[i] = input[i]

C2_Witness ==
  /\ Masked
  /\ Len(data.ignoredByParsers) = 1
  /\ data.ignoredByParsers[1].index > 0
  /\ data.ignoredByParsers[1].length > 0
  /\ data.modifiedValue # input
  /\ Len(data.modifiedValue) = Len(input)

EndsWith(s, lit) ==
  /\ Len(lit) <= Len(s)
  /\ SubSeq(s, Len(s) - Len(lit) + 1, Len(s)) = lit

\* `{% name ` followed, before any other `%`, by `%}`.
OpensWithTag(raw, name) ==
  /\ StartsWithAt(raw, <<"{", "%", " ">> \o name \o <<" ">>, 1)
  /\ \E q \in (Len(name) + 5)..(Len(raw) - 1) :
        /\ raw[q] = "%"
        /\ raw[q + 1] = "}"
        /\ \A j \in (Len(name) + 5)..(q - 1) : raw[j] # "%"

\* C12: every recorded span is the input text at [index, index + length),
\* starts with an opening tag `{% name ... %}` and ends with the closing tag
\* `{% endname %}` of the same name, which is the span's name; nothing
\* outside a recorded span is masked.
C12_MatchingTagNames ==
  Masked =>
    /\ \A k \in 1..Len(data.ignoredByParsers) :
          LET span == data.ignoredByParsers[k]
              raw  == SubSeq(input, span.index + 1, span.index + span.length)
          IN  /\ span.originValue = raw
              /\ span.name # <<>>
              /\ \A j \in 1..Len(span.name) : span.name[j] # " "
              /\ OpensWithTag(raw, span.name)
              /\ EndsWith(raw, <<"{", "%", " ", "e", "n", "d">> \o span.name \o <<" ", "%", "}">>)
              /\ \A other \in {<<"x">>, <<"y">>} \ {span.name} :
                    ~EndsWith(raw, <<"{", "%", " ", "e", "n", "d">> \o other \o <<" ", "%", "}">>)
    /\ \A i \in 1..Len(input) :
          data.modifiedValue[i] # input[i] => InSomeSpan(data.ignoredByParsers, i)

\* A y region has been masked while a closing tag of x after it is left alone.
C12_Witness ==
  /\ Masked
  /\ Len(data.ignoredByParsers) = 1
  /\ data.ignoredByParsers[1].name = <<"y">>
  /\ data.ignoredByParsers[1].index = 0
  /\ EndsWith(input, <<"{", "%", " ", "e", "n", "d", "x", " ", "%", "}">>)
  /\ EndsWith(data.modifiedValue, <<"{", "%", " ", "e", "n", "d", "x", " ", "%", "}">>)

\* An x region followed by a closing tag of y only is never masked.
WrongNameNeverCloses ==
  Masked /\ input = <<"{", "%", " ", "x", " ", "%", "}", "a", ",">>
                      \o <<"{", "%", " ", "e", "n", "d", "y", " ", "%", "}">>
    => data.ignoredByParsers = <<>> /\ data.modifiedValue = input

(***************************************************************************)
(* The markdown structural extractor (part_001:174-453).                   *)
(*                                                                         *)
(* A syntax-tree node is a record with a `type`, an optional `position`    *)
(* ([start |-> [offset |-> n], end |-> [offset |-> n]]) and, for a parent, *)
(* `children`.  An optional property is a field that may be missing.       *)
(***************************************************************************)
hasPosition(node) == "position" \in DOMAIN node

\* parsePosition: `position?.start?.offset || 0`
parsePosition(node) ==
  IF hasPosition(node)
    THEN [start |-> node.position.start.offset, end |-> node.position.end.offset]
    ELSE [start |-> 0, end |-> 0]

isParent(node) == "children" \in DOMAIN node

blockTypes == {"paragraph", "heading", "table-cell"}

isBlockNode(node) == node.type \in blockTypes

inlineContentTypes == {"emphasis", "strong", "delete", "link", "linkReference"}

isInlineContent(node) == node.type \in inlineContentTypes

inlineRawTypes ==
  {"inlineCode", "break", "image", "imageReference", "footnoteDefinition", "html"}

isInlineRaw(node) == node.type \in inlineRawTypes

\* travelInlines: the inline marks below `node`, appended to `inlineMarks`.
RECURSIVE travelInlines(_, _)
RECURSIVE travelInlineChildren(_, _, _)
travelInlines(node, inlineMarks) ==
  IF isParent(node) THEN travelInlineChildren(node.children, 1, inlineMarks)
  ELSE inlineMarks

travelInlineChildren(children, i, inlineMarks) ==
  IF i > Len(children) THEN inlineMarks
  ELSE
    LET child == children[i]
        afterContent ==
          IF isInlineContent(child)
            THEN travelInlines(child, Append(inlineMarks, [inline |-> child, raw |-> FALSE]))
            ELSE inlineMarks
        afterRaw ==
          IF isInlineRaw(child)
            THEN Append(afterContent, [inline |-> child, raw |-> TRUE])
            ELSE afterContent
    IN  travelInlineChildren(children, i + 1, afterRaw)

\* travelBlocks: the block marks below `node`, appended to `blocks`.
RECURSIVE travelBlocks(_, _)
RECURSIVE travelBlockChildren(_, _, _)
travelBlocks(node, blocks) ==
  IF isParent(node) THEN travelBlockChildren(node.children, 1, blocks)
  ELSE blocks

travelBlockChildren(children, i, blocks) ==
  IF i > Len(children) THEN blocks
  ELSE
    LET child == children[i]
        after ==
          IF child.type = "yaml" THEN blocks
          ELSE IF isBlockNode(child)
            THEN Append(blocks, [block |-> child,
                                 inlineMarks |-> travelInlines(child, <<>>),
                                 hyperMarks |-> <<>>,
                                 value |-> <<>>])
          ELSE travelBlocks(child, blocks)
    IN  travelBlockChildren(children, i + 1, after)

\* `.` of a regular expression: any character but a line terminator.
LineTerminators == {LF, "\r"}

\* /<code.*>/ and /<\/code.*>/: `lit`, then characters of one line, then `>`.
matchesTag(s, lit) ==
  \E i \in 1..Len(s) :
    /\ StartsWithAt(s, lit, i)
    /\ \E j \in (i + Len(lit))..Len(s) :
         /\ s[j] = ">"
         /\ \A k \in (i + Len(lit))..(j - 1) : s[k] \notin LineTerminators

isOpeningCode(s) == matchesTag(s, <<"<", "c", "o", "d", "e">>)

isClosingCode(s) == matchesTag(s, <<"<", "/", "c", "o", "d", "e">>)

\* unresolvedCodeMarks.pop(), the stack holding indices into `marks`:
\* the rest of the stack after the pop.
popped(unresolved) == SubSeq(unresolved, 1, Len(unresolved) - 1)

\* The mark that pop() returns: the index of the last pushed one, 0 for undefined.
peekOldest(unresolved) == IF unresolved = <<>> THEN 0 ELSE unresolved[1]

lastPushed(unresolved) == IF unresolved = <<>> THEN 0 ELSE unresolved[Len(unresolved)]

\* The body of inlineMarks.forEach: st = [marks, unresolvedCodeMarks].  The
\* objects of unresolvedCodeMarks are those of marks, so the stack holds
\* their indices and `leftCode.rightPair = rawMark` updates marks in place.
processInlineMark(st, inlineMark, offset, s) ==
  LET inline == inlineMark.inline
  IN  IF ~hasPosition(inline) THEN st
      ELSE
        LET startOffset == inline.position.start.offset
            endOffset   == inline.position.end.offset
        IN  IF isInlineRaw(inline)
              THEN
                LET mark == [type |-> "raw", meta |-> inline.type,
                             startIndex |-> startOffset - offset,
                             endIndex |-> endOffset - offset,
                             startValue |-> Substring(s, startOffset, endOffset),
                             endValue |-> <<>>]
                IN  IF isOpeningCode(mark.startValue)
                      THEN [marks |-> Append(st.marks, [code |-> "left"] @@ mark),
                            unresolvedCodeMarks |->
                              Append(st.unresolvedCodeMarks, Len(st.marks) + 1)]
                    ELSE IF isClosingCode(mark.startValue)
                      THEN
                        LET rawMark  == [code |-> "right"] @@ mark
                            leftCode == lastPushed(st.unresolvedCodeMarks)
                            paired   ==
                              IF leftCode # 0
                                THEN [st.marks EXCEPT
                                        ![leftCode] = [rightPair |-> rawMark] @@ @]
                                ELSE st.marks
                        IN  [marks |-> Append(paired, rawMark),
                             unresolvedCodeMarks |-> popped(st.unresolvedCodeMarks)]
                    ELSE [st EXCEPT !.marks = Append(@, mark)]
              ELSE
                LET firstChild == inline.children[1]
                    lastChild  == inline.children[Len(inline.children)]
                IN  IF ~hasPosition(firstChild) \/ ~hasPosition(lastChild) THEN st
                    ELSE
                      LET innerStartOffset == firstChild.position.start.offset
                          innerEndOffset   == lastChild.position.end.offset
                          mark == [type |-> "hyper", meta |-> inline.type,
                                   startIndex |-> startOffset - offset,
                                   startValue |-> Substring(s, startOffset, innerStartOffset),
                                   endIndex |-> innerEndOffset - offset,
                                   endValue |-> Substring(s, innerEndOffset, endOffset)]
                      IN  [st EXCEPT !.marks = Append(@, mark)]

RECURSIVE forEachInlineMark(_, _, _, _, _)
forEachInlineMark(inlineMarks, i, st, offset, s) ==
  IF i > Len(inlineMarks) THEN st
  ELSE forEachInlineMark(inlineMarks, i + 1,
                         processInlineMark(st, inlineMarks[i], offset, s), offset, s)

\* isRawMark (parser/index.js): a mark that carries a `code` side.
isRawMark(mark) == "code" \in DOMAIN mark

\* The callback of marks.map: <<>> for a dropped mark, else the mark.
keepRightCode(mark, offset, s) == <<mark>>

resolveCodeMark(mark, offset, s) ==
  IF isRawMark(mark) /\ mark.code = "right" THEN <<>>
  ELSE IF isRawMark(mark) /\ mark.code = "left"
    THEN
      LET rightEnd == IF "rightPair" \in DOMAIN mark THEN mark.rightPair.endIndex ELSE 0
          merged   == [mark EXCEPT
                         !.startValue = Substring(s, mark.startIndex + offset,
                                                     mark.endIndex + offset),
                         !.endIndex = rightEnd,
                         !.endValue = <<>>]
      IN  <<[f \in (DOMAIN merged) \ {"rightPair"} |-> merged[f]]>>
  ELSE <<mark>>

RECURSIVE mapFilterMarks(_, _, _)
mapFilterMarks(marks, offset, s) ==
  IF marks = <<>> THEN <<>>
  ELSE resolveCodeMark(Head(marks), offset, s) \o mapFilterMarks(Tail(marks), offset, s)

processBlockMark(blockMark, s) ==
  IF ~hasPosition(blockMark.block) THEN blockMark
  ELSE
    LET offset == blockMark.block.position.start.offset
        st == forEachInlineMark(blockMark.inlineMarks, 1,
                                [marks |-> <<>>, unresolvedCodeMarks |-> <<>>], offset, s)
    IN  [blockMark EXCEPT
           !.value = Substring(s, blockMark.block.position.start.offset,
                                  blockMark.block.position.end.offset),
           !.hyperMarks = mapFilterMarks(st.marks, offset, s)]

\* The mark pushed for an ignored span that lies inside the block.
spanMarkAbsolute(span, position) ==
  [type |-> "raw", meta |-> span.meta,
   startIndex |-> span.index,
   startValue |-> span.originValue,
   endIndex |-> span.index + span.length,
   endValue |-> <<>>]

spanMark(span, position) ==
  [type |-> "raw", meta |-> span.meta,
   startIndex |-> span.index - position.start,
   startValue |-> span.originValue,
   endIndex |-> span.index - position.start + span.length,
   endValue |-> <<>>]

inside(span, position) ==
  position.start <= span.index /\ position.end >= span.index + span.length

RECURSIVE spanMarks(_, _)
spanMarks(ignoredByParsers, position) ==
  IF ignoredByParsers = <<>> THEN <<>>
  ELSE (IF inside(Head(ignoredByParsers), position)
          THEN <<spanMark(Head(ignoredByParsers), position)>>
          ELSE <<>>)
       \o spanMarks(Tail(ignoredByParsers), position)

\* The callback of blockMarks.map in parser.
toBlock(b, ignoredByParsers) ==
  LET position == parsePosition(b.block)
  IN  [value |-> b.value,
       marks |-> b.hyperMarks \o spanMarks(ignoredByParsers, position),
       start |-> position.start,
       end |-> position.end]

mdParser(d, tree) ==
  LET blockMarks == travelBlocks(tree, <<>>)
      processed  == [i \in 1..Len(blockMarks) |-> processBlockMark(blockMarks[i], d.value)]
  IN  [d EXCEPT
         !.blocks = [i \in 1..Len(processed) |-> toBlock(processed[i], d.ignoredByParsers)],
         !.ignoredByParsers = <<>>]

(***************************************************************************)
(* Inputs of the extractor.  The syntax tree comes from the external       *)
(* parser (part_001:407-411); a document is described by its structure, a  *)
(* list of flow items each holding inline items, from which follow both    *)
(* its text and the tree the parser returns for it, offsets included.  A   *)
(* masked hexo region reaches the parser as filler, hence as plain text.   *)
(***************************************************************************)
Position(a, b) == [start |-> [offset |-> a], end |-> [offset |-> b]]

Leaf(type, a, b) == [type |-> type, position |-> Position(a, b)]

Parent(type, a, b, children) ==
  [type |-> type, position |-> Position(a, b), children |-> children]

\* The grave accent, which a TLA+ string cannot hold.
Backtick == "GRAVE"

InlineSource(kind) ==
  CASE kind = "text"  -> <<"a", ",">>
    [] kind = "open"  -> <<"<", "c", "o", "d", "e", ">">>
    [] kind = "close" -> <<"<", "/", "c", "o", "d", "e", ">">>
    [] kind = "html"  -> <<"<", "b", ">">>
    [] kind = "code"  -> <<Backtick, "x", Backtick>>
    [] kind = "em"    -> <<"*", Backtick, "x", Backtick, "*">>
    [] kind = "hexo"  -> <<"{", "%", " ", "x", " ", "%", "}", "a", ",",
                           "{", "%", " ", "e", "n", "d", "x", " ", "%", "}">>

\* The node the parser returns for an inline item that starts at offset `at`.
InlineNode(kind, at) ==
  LET to == at + Len(InlineSource(kind))
  IN  CASE kind \in {"text", "hexo"}          -> Leaf("text", at, to)
        [] kind \in {"open", "close", "html"} -> Leaf("html", at, to)
        [] kind = "code"                      -> Leaf("inlineCode", at, to)
        [] kind = "em" ->
             Parent("emphasis", at, to, <<Leaf("inlineCode", at + 1, to - 1)>>)

RECURSIVE InlineSources(_)
InlineSources(kinds) ==
  IF kinds = <<>> THEN <<>> ELSE InlineSource(Head(kinds)) \o InlineSources(Tail(kinds))

RECURSIVE InlineNodes(_, _)
InlineNodes(kinds, at) ==
  IF kinds = <<>> THEN <<>>
  ELSE <<InlineNode(Head(kinds), at)>>
       \o InlineNodes(Tail(kinds), at + Len(InlineSource(Head(kinds))))

FlowSource(item) ==
  LET inner == InlineSources(item.inlines)
  IN  CASE item.kind = "paragraph"  -> inner
        [] item.kind = "heading"    -> <<"#", " ">> \o inner
        [] item.kind = "blockquote" -> <<">", " ">> \o inner
        [] item.kind = "table"      -> <<"|">> \o inner \o <<"|", LF, "|", "-", "|">>
        [] item.kind = "code"       -> <<Backtick, Backtick, Backtick, LF>> \o inner
                                          \o <<LF, Backtick, Backtick, Backtick>>
        [] item.kind = "yaml"       -> <<"-", "-", "-", LF>> \o inner \o <<LF, "-", "-", "-">>

FlowNode(item, at) ==
  LET n  == Len(InlineSources(item.inlines))
      to == at + Len(FlowSource(item))
  IN  CASE item.kind = "paragraph" ->
             Parent("paragraph", at, to, InlineNodes(item.inlines, at))
        [] item.kind = "heading" ->
             Parent("heading", at, to, InlineNodes(item.inlines, at + 2))
        [] item.kind = "blockquote" ->
             Parent("blockquote", at, to,
                    <<Parent("paragraph", at + 2, to, InlineNodes(item.inlines, at + 2))>>)
        [] item.kind = "table" ->
             Parent("table", at, to,
                    <<Parent("tableRow", at, at + n + 2,
                             <<Parent("tableCell", at, at + n + 2,
                                      InlineNodes(item.inlines, at + 1))>>)>>)
        [] item.kind = "code" -> Leaf("code", at, to)
        [] item.kind = "yaml" -> Leaf("yaml", at, to)

FlowSeparator == <<LF, LF>>

RECURSIVE DocSource(_)
DocSource(items) ==
  IF items = <<>> THEN <<>>
  ELSE IF Len(items) = 1 THEN FlowSource(Head(items))
  ELSE FlowSource(Head(items)) \o FlowSeparator \o DocSource(Tail(items))

RECURSIVE FlowNodes(_, _)
FlowNodes(items, at) ==
  IF items = <<>> THEN <<>>
  ELSE <<FlowNode(Head(items), at)>>
       \o FlowNodes(Tail(items), at + Len(FlowSource(Head(items))) + Len(FlowSeparator))

\* unified().use(markdown).use(gfm).use(frontmatter).parse(modifiedValue)
mdast(items) == Parent("root", 0, Len(DocSource(items)), FlowNodes(items, 0))

MarkKinds == {"open", "close", "html", "em", "text"}

FlowKinds == {"paragraph", "heading", "blockquote", "table", "code"}

FlowContents == { <<"text">>, <<"hexo">>, <<"text", "hexo">> }

FlowItems ==
  { [kind |-> k, inlines |-> c] : k \in FlowKinds, c \in FlowContents }
    \cup { [kind |-> "yaml", inlines |-> <<"text">>] }

MarkDocs ==
  UNION { { <<[kind |-> "paragraph", inlines |-> ks]>> : ks \in [1..n -> MarkKinds] } :
          n \in 1..MaxMarks }

BlockDocs == UNION { [1..n -> FlowItems] : n \in 0..MaxFlow }

InitMd ==
  /\ pc = "hexo"
  /\ doc \in MarkDocs \cup BlockDocs
  /\ input = DocSource(doc)
  /\ data = [value |-> input, modifiedValue |-> input,
             ignoredByParsers |-> <<>>, blocks |-> <<>>]
  /\ str = <<>>
  /\ inBlocks = <<>>
  /\ out = NoOutput
  /\ NoRule

MdParser ==
  /\ pc = "masked"
  /\ data' = mdParser(data, mdast(doc))
  /\ pc' = "parsed"
  /\ UNCHANGED <<str, inBlocks, out, input, doc, options, group, tokenIndex>>

NextMd == HexoParser \/ MdParser

SpecMd == InitMd /\ [][NextMd]_vars

(***************************************************************************)
(* Trees with nodes that carry no position (`position` is optional in the  *)
(* tree's types, and the extractor tests for it).  A flow item names which *)
(* of its nodes lack it: none, its block node, or its inline nodes.  The    *)
(* blocks the extractor returns are handed, unchanged by any rule, to the  *)
(* reassembler.                                                            *)
(***************************************************************************)
dropPosition(node) == [f \in DOMAIN node \ {"position"} |-> node[f]]

unpositioned(node, without) ==
  CASE without = "none"   -> node
    [] without = "block"  -> dropPosition(node)
    [] without = "inline" ->
         [node EXCEPT !.children = [j \in 1..Len(node.children) |-> dropPosition(node.children[j])]]

mdastUnpositioned(items) ==
  LET nodes == FlowNodes(items, 0)
  IN  [type |-> "root",
       position |-> Position(0, Len(DocSource(items))),
       children |-> [i \in 1..Len(items) |-> unpositioned(nodes[i], items[i].without)]]

UnpositionedContents == { <<"text">>, <<"html", "text">>, <<"text", "code">> }

UnpositionedItems ==
  { [kind |-> k, inlines |-> c, without |-> w] :
      k \in {"paragraph", "heading"}, c \in UnpositionedContents,
      w \in {"none", "block", "inline"} }

UnpositionedDocs == UNION { [1..n -> UnpositionedItems] : n \in 0..MaxFlow }

InitUnpositioned ==
  /\ pc = "hexo"
  /\ doc \in UnpositionedDocs
  /\ input = DocSource(doc)
  /\ data = [value |-> input, modifiedValue |-> input,
             ignoredByParsers |-> <<>>, blocks |-> <<>>]
  /\ str = <<>>
  /\ inBlocks = <<>>
  /\ out = NoOutput
  /\ NoRule

MdParserUnpositioned ==
  /\ pc = "masked"
  /\ data' = mdParser(data, mdastUnpositioned(doc))
  /\ pc' = "parsed"
  /\ UNCHANGED <<str, inBlocks, out, input, doc, options, group, tokenIndex>>

\* Every block is linted (here by no rule, so its text stays) and the list
\* goes to replaceBlocks with the original document.
RunBlocks ==
  /\ pc = "parsed"
  /\ str' = data.value
  /\ inBlocks' = [i \in 1..Len(data.blocks) |->
                    [start |-> data.blocks[i].start,
                     end   |-> data.blocks[i].end,
                     value |-> data.blocks[i].value]]
  /\ pc' = "replace"
  /\ UNCHANGED <<out, input, data, doc, options, group, tokenIndex>>

NextUnpositioned == HexoParser \/ MdParserUnpositioned \/ RunBlocks \/ ReplaceBlocks

SpecUnpositioned == InitUnpositioned /\ [][NextUnpositioned]_vars

(***************************************************************************)
(* The punctuation-width rule (replace-block.ts:77-282).                   *)
(*                                                                         *)
(* A character is a one-character string; a full-width character, which a  *)
(* TLA+ string cannot hold, is named by its code point.                    *)
(***************************************************************************)
FullComma       == "U+FF0C"
FullStop        == "U+3002"
FullSemicolon   == "U+FF1B"
FullColon       == "U+FF1A"
FullQuestion    == "U+FF1F"
FullExclamation == "U+FF01"
FullLeftParen   == "U+FF08"
FullRightParen  == "U+FF09"
FullLeftSquare  == "U+FF3B"
FullRightSquare == "U+FF3D"
FullLeftCurly   == "U+FF5B"
FullRightCurly  == "U+FF5D"
LeftDouble      == "U+201C"
RightDouble     == "U+201D"
LeftSingle      == "U+2018"
RightSingle     == "U+2019"
HalfDouble      == "\""
HalfSingle      == "'"

widthPairList ==
  << <<",", FullComma>>, <<".", FullStop>>, <<";", FullSemicolon>>,
     <<":", FullColon>>, <<"?", FullQuestion>>, <<"!", FullExclamation>>,
     <<"(", FullLeftParen>>, <<")", FullRightParen>>,
     <<"[", FullLeftSquare>>, <<"]", FullRightSquare>>,
     <<"{", FullLeftCurly>>, <<"}", FullRightCurly>> >>

widthSidePairList ==
  << <<HalfDouble, LeftDouble, RightDouble>>,
     <<HalfSingle, LeftSingle, RightSingle>> >>

defaultHalfwidthOption == <<"(", ")", "[", "]", "{", "}">>

defaultFullwidthOption ==
  <<FullComma, FullStop, FullColon, FullSemicolon, FullQuestion, FullExclamation,
    LeftDouble, RightDouble, LeftSingle, RightSingle>>

defaultAdjustedFullwidthOption == <<LeftDouble, RightDouble, LeftSingle, RightSingle>>

defaultConfig ==
  [halfwidthPunctuation |-> defaultHalfwidthOption,
   fullwidthPunctuation |-> defaultFullwidthOption,
   adjustedFullwidthPunctuation |-> defaultAdjustedFullwidthOption]

\* option.indexOf(char) >= 0, for a one-character search string.
includes(option, char) == \E i \in 1..Len(option) : option[i] = char

\* The object built from [key, value] entries; every key occurs once.
MapOf(entries) ==
  [k \in { e[1] : e \in entries } |-> (CHOOSE e \in entries : e[1] = k)[2]]

Range(seq) == { seq[i] : i \in 1..Len(seq) }

\* fullwidthPairMap is filled when the option holds the left or the right form.
pairListed(fullwidthOption, left, right) ==
  includes(fullwidthOption, left) \/ includes(fullwidthOption, right)

parseOptions(opts) ==
  LET halfwidthOption == opts.halfwidthPunctuation
      fullwidthOption == opts.fullwidthPunctuation
  IN  [halfwidthMap |->
         MapOf({ <<p[2], p[1]>> : p \in { q \in Range(widthPairList) :
                                            includes(halfwidthOption, q[1]) } }
               \cup { <<p[2], p[1]>> : p \in { q \in Range(widthSidePairList) :
                                                 includes(halfwidthOption, q[1]) } }
               \cup { <<p[3], p[1]>> : p \in { q \in Range(widthSidePairList) :
                                                 includes(halfwidthOption, q[1]) } }),
       fullwidthMap |->
         MapOf({ <<p[1], p[2]>> : p \in { q \in Range(widthPairList) :
                                            includes(fullwidthOption, q[2]) } }),
       fullwidthPairMap |->
         MapOf({ <<p[1], <<p[2], p[3]>>>> : p \in { q \in Range(widthSidePairList) :
                                                     pairListed(fullwidthOption, q[2], q[3]) } }),
       adjusted |-> opts.adjustedFullwidthPunctuation]

\* Token classifications (parser/index.js).
isSinglePunctuationType(type) ==
  type \in {"halfwidth-punctuation", "fullwidth-punctuation"}

isHalfwidthPunctuationType(type) == type = "halfwidth-punctuation"

getFullwidthTokenType(type) ==
  IF type = "halfwidth-punctuation" THEN "fullwidth-punctuation" ELSE type

getHalfwidthTokenType(type) ==
  IF type = "fullwidth-punctuation" THEN "halfwidth-punctuation" ELSE type

PUNCTUATION_FULL_WIDTH == "PUNCTUATION_FULL_WIDTH"
PUNCTUATION_HALF_WIDTH == "PUNCTUATION_HALF_WIDTH"

\* One validation per edit point of a token: a new one replaces the old.
setValidationOnTarget(validations, target, message) ==
  LET IsOther(v) == v.target # target
  IN  Append(SelectSeq(validations, IsOther), [target |-> target, message |-> message])

\* checkValue, checkStartValue, checkEndValue (rules/util.js).
checkValue(token, value, type, message) ==
  IF token.modifiedValue = value THEN token
  ELSE [token EXCEPT !.modifiedValue = value,
                     !.modifiedType = type,
                     !.validations = setValidationOnTarget(@, "value", message)]

checkStartValue(token, value, message) ==
  IF token.modifiedStartValue = value THEN token
  ELSE [token EXCEPT !.modifiedStartValue = value,
                     !.validations = setValidationOnTarget(@, "startValue", message)]

checkEndValue(token, value, message) ==
  IF token.modifiedEndValue = value THEN token
  ELSE [token EXCEPT !.modifiedEndValue = value,
                     !.validations = setValidationOnTarget(@, "endValue", message)]

\* "skip half-width punctuations between half-width content without space"
isHalfwidthPunctuationWithoutSpaceAround(tokens, i) ==
  /\ isHalfwidthPunctuationType(tokens[i].type)
  /\ i > 1 /\ tokens[i - 1].type = "halfwidth-content"
  /\ i < Len(tokens) /\ tokens[i + 1].type = "halfwidth-content"

\* "skip successive multiple half-width punctuations"
isSuccessiveHalfwidthPunctuation(tokens, i) ==
  /\ isHalfwidthPunctuationType(tokens[i].type)
  /\ \/ i > 1 /\ isHalfwidthPunctuationType(tokens[i - 1].type)
     \/ i < Len(tokens) /\ isHalfwidthPunctuationType(tokens[i + 1].type)

\* The value JavaScript reads at a key that is not there.
Undefined == "undefined"

\* string[k] on a one-character string.
charAt(string, k) == IF k = 0 THEN string ELSE Undefined

checkAdjustedAlways(token, adjusted) ==
  [token EXCEPT !.modifiedType = getHalfwidthTokenType(token.type)]

checkAdjusted(token, adjusted) ==
  IF includes(adjusted, token.modifiedValue)
    THEN [token EXCEPT !.modifiedType = getHalfwidthTokenType(token.type)]
    ELSE token

\* "1. normal punctuations in the alter width map / 2. brackets"
handleValue(parsed, token) ==
  LET value == token.modifiedValue
  IN  IF value \in DOMAIN parsed.fullwidthMap
        THEN checkAdjusted(checkValue(token, parsed.fullwidthMap[value],
                                      getFullwidthTokenType(token.type),
                                      PUNCTUATION_FULL_WIDTH),
                           parsed.adjusted)
      ELSE IF value \in DOMAIN parsed.halfwidthMap
        THEN checkValue(token, parsed.halfwidthMap[value],
                        getHalfwidthTokenType(token.type), PUNCTUATION_HALF_WIDTH)
      ELSE token

\* "3. quotations in the alter pair map"
handleStartValue(parsed, token, startValue) ==
  IF startValue \in DOMAIN parsed.fullwidthPairMap
    THEN checkStartValue(token, parsed.fullwidthPairMap[startValue][1],
                         PUNCTUATION_FULL_WIDTH)
  ELSE IF startValue \in DOMAIN parsed.halfwidthMap
    THEN checkStartValue(token, charAt(parsed.halfwidthMap[startValue], 0),
                         PUNCTUATION_HALF_WIDTH)
  ELSE token

handleEndValue(parsed, token, endValue) ==
  IF endValue \in DOMAIN parsed.fullwidthPairMap
    THEN checkEndValue(token, parsed.fullwidthPairMap[endValue][2],
                       PUNCTUATION_FULL_WIDTH)
  ELSE IF endValue \in DOMAIN parsed.halfwidthMap
    THEN checkEndValue(token, charAt(parsed.halfwidthMap[endValue], 1),
                       PUNCTUATION_HALF_WIDTH)
  ELSE token

\* handleHyperSpaceOption(token, _, group): the token at position i of
\* `tokens` after the handler ran on it.
handleHyperSpaceOption(parsed, tokens, i) ==
  LET token == tokens[i]
  IN  IF /\ ~isSinglePunctuationType(token.type)
         /\ token.type # "bracket-mark"
         /\ token.type # "group"
        THEN token
      ELSE IF isHalfwidthPunctuationWithoutSpaceAround(tokens, i) THEN token
      ELSE IF isSuccessiveHalfwidthPunctuation(tokens, i) THEN token
      ELSE IF isSinglePunctuationType(token.type) \/ token.type = "bracket-mark"
        THEN handleValue(parsed, token)
      ELSE
        LET startValue == token.modifiedStartValue
            endValue   == token.modifiedEndValue
        IN  handleEndValue(parsed, handleStartValue(parsed, token, startValue), endValue)

\* generateHandler(options) walks the sequence once, left to right.
generateHandler(opts, tokens, i) == handleHyperSpaceOption(parseOptions(opts), tokens, i)

(***************************************************************************)
(* Inputs of the rule: a token with a neighbour, or none, on each side,    *)
(* every intended value at its original, and options made of a few option  *)
(* strings.                                                                *)
(***************************************************************************)
Token(type, value) ==
  [type |-> type, value |-> value, modifiedType |-> type, modifiedValue |-> value,
   validations |-> <<>>]

GroupToken(startValue, endValue) ==
  [type |-> "group", modifiedType |-> "group",
   startValue |-> startValue, modifiedStartValue |-> startValue,
   endValue |-> endValue, modifiedEndValue |-> endValue,
   validations |-> <<>>]

HalfPunctuations == {",", ".", ";", ":", "?", "!", "-"}

FullPunctuations == {FullComma, FullStop}

Neighbours ==
  { Token("halfwidth-content", "a"), Token("fullwidth-content", "U+4E2D"),
    Token("whitespace", " "), Token("halfwidth-punctuation", ",") }

Subjects ==
  { Token("halfwidth-punctuation", c) : c \in HalfPunctuations }
    \cup { Token("fullwidth-punctuation", c) : c \in FullPunctuations }
    \cup { Token("bracket-mark", c) : c \in {"(", FullLeftParen, FullRightSquare} }
    \cup { GroupToken(HalfDouble, HalfDouble), GroupToken(HalfSingle, HalfSingle),
           GroupToken(LeftDouble, RightDouble), GroupToken(LeftSingle, RightSingle) }
    \cup Neighbours

TokenSequences ==
  { <<t>> : t \in Subjects }
    \cup { <<b, t>> : b \in Neighbours, t \in Subjects }
    \cup { <<t, a>> : t \in Subjects, a \in Neighbours }
    \cup { <<b, t, a>> : b \in Neighbours, t \in Subjects, a \in Neighbours }

HalfwidthOptions ==
  { <<>>, defaultHalfwidthOption, <<HalfDouble, HalfSingle>>, <<",", "(">> }

FullwidthOptions ==
  { <<>>, defaultFullwidthOption, <<LeftDouble>>, <<RightSingle>>,
    <<FullComma, FullLeftParen>> }

AdjustedOptions == { <<>>, defaultAdjustedFullwidthOption, <<FullComma>> }

RuleOptions ==
  [halfwidthPunctuation : HalfwidthOptions,
   fullwidthPunctuation : FullwidthOptions,
   adjustedFullwidthPunctuation : AdjustedOptions]

InitRule ==
  /\ pc = "rule"
  /\ options \in RuleOptions
  /\ group \in TokenSequences
  /\ tokenIndex = 1
  /\ str = <<>>
  /\ inBlocks = <<>>
  /\ out = NoOutput
  /\ input = <<>>
  /\ data = NoStatus
  /\ doc = <<>>

HandleToken ==
  /\ pc = "rule"
  /\ tokenIndex <= Len(group)
  /\ group' = [group EXCEPT ![tokenIndex] = generateHandler(options, group, tokenIndex)]
  /\ tokenIndex' = tokenIndex + 1
  /\ UNCHANGED <<pc, doc, str, inBlocks, out, input, data, options>>

NextRule == HandleToken

SpecRule == InitRule /\ [][NextRule]_vars

(***************************************************************************)
(* A second run of the rule on the result of the first: the fixed text is  *)
(* tokenized again, so that every token's original value is the intended   *)
(* value the first run left, and the same handler walks the new sequence.  *)
(***************************************************************************)
HalfwidthMarks ==
  HalfPunctuations \cup {HalfDouble, HalfSingle}

\* The classification the tokenizer gives a punctuation character.
punctuationTypeOf(value) ==
  IF value \in HalfwidthMarks THEN "halfwidth-punctuation" ELSE "fullwidth-punctuation"

retokenized(token) ==
  IF token.type = "group"
    THEN GroupToken(token.modifiedStartValue, token.modifiedEndValue)
  ELSE IF isSinglePunctuationType(token.type)
    THEN Token(punctuationTypeOf(token.modifiedValue), token.modifiedValue)
  ELSE Token(token.type, token.modifiedValue)

Retokenize ==
  /\ pc = "rule"
  /\ tokenIndex > Len(group)
  /\ pc' = "rerun"
  /\ group' = [i \in 1..Len(group) |-> retokenized(group[i])]
  /\ tokenIndex' = 1
  /\ UNCHANGED <<doc, str, inBlocks, out, input, data, options>>

HandleTokenAgain ==
  /\ pc = "rerun"
  /\ tokenIndex <= Len(group)
  /\ group' = [group EXCEPT ![tokenIndex] = generateHandler(options, group, tokenIndex)]
  /\ tokenIndex' = tokenIndex + 1
  /\ UNCHANGED <<pc, doc, str, inBlocks, out, input, data, options>>

NextRerun == HandleToken \/ Retokenize \/ HandleTokenAgain

SpecRerun == InitRule /\ [][NextRerun]_vars

(***************************************************************************)
(* Claims about the punctuation-width rule, checked under SpecRule.        *)
(***************************************************************************)
\* The positions the handler has already run on.
Handled == IF pc = "rule" THEN 1..(tokenIndex - 1) ELSE {}

Untouched(token) ==
  IF token.type = "group"
    THEN token = GroupToken(token.startValue, token.endValue)
    ELSE token = Token(token.type, token.value)

QuotationMarks ==
  {HalfDouble, HalfSingle, LeftDouble, RightDouble, LeftSingle, RightSingle}

\* A side is converted when its intended delimiter is a quotation mark other
\* than the original one.
Converted(original, modified) == modified \in QuotationMarks /\ modified # original

LeftOf(half) == IF half = HalfDouble THEN LeftDouble ELSE LeftSingle

RightOf(half) == IF half = HalfDouble THEN RightDouble ELSE RightSingle

FullwidthQuoteConfigured(half) ==
  \/ includes(options.fullwidthPunctuation, LeftOf(half))
  \/ includes(options.fullwidthPunctuation, RightOf(half))

FullwidthQuotesBothSides ==
  \A i \in Handled :
    LET token == group[i]
    IN  /\ token.type = "group"
        /\ token.startValue \in {HalfDouble, HalfSingle}
        /\ token.endValue = token.startValue
        /\ FullwidthQuoteConfigured(token.startValue)
        => /\ token.modifiedStartValue = LeftOf(token.startValue)
           /\ token.modifiedEndValue = RightOf(token.startValue)

NeverOneSide ==
  \A i \in Handled :
    LET token == group[i]
    IN  token.type = "group"
        => (Converted(token.startValue, token.modifiedStartValue)
              <=> Converted(token.endValue, token.modifiedEndValue))

\* C9: with a full-width quote configured, a group delimited by the half-width
\* quote on both sides gets the left full-width form as intended start and the
\* right full-width form as intended end; and for every group token and every
\* configuration the handler converts both sides or neither.
C9_QuotationPairing == FullwidthQuotesBothSides /\ NeverOneSide

\* C10: under the default configuration a half-width , . ; : ? ! that is not
\* skipped (flanked by half-width content, or in a run of half-width
\* punctuation) gets the paired full-width symbol as intended value, the
\* full-width classification and exactly one validation; a token that is not
\* punctuation, a bracket mark or a group is left unchanged.
PairedFullwidth(value) ==
  CASE value = "," -> FullComma
    [] value = "." -> FullStop
    [] value = ";" -> FullSemicolon
    [] value = ":" -> FullColon
    [] value = "?" -> FullQuestion
    [] value = "!" -> FullExclamation

Skipped(i) ==
  \/ isHalfwidthPunctuationWithoutSpaceAround(group, i)
  \/ isSuccessiveHalfwidthPunctuation(group, i)

C10_WidthConversion ==
  \A i \in Handled :
    LET token == group[i]
    IN  /\ /\ options = defaultConfig
           /\ token.type = "halfwidth-punctuation"
           /\ token.value \in {",", ".", ";", ":", "?", "!"}
           /\ ~Skipped(i)
           => /\ token.modifiedValue = PairedFullwidth(token.value)
              /\ token.modifiedType = "fullwidth-punctuation"
              /\ Len(token.validations) = 1
              /\ token.validations[1].target = "value"
        /\ /\ ~isSinglePunctuationType(token.type)
           /\ token.type # "bracket-mark"
           /\ token.type # "group"
           => Untouched(token)

\* The comma between two full-width content runs has been converted.
C10_Witness ==
  /\ pc = "rule"
  /\ options = defaultConfig
  /\ Len(group) = 3
  /\ tokenIndex = 4
  /\ group[1] = Token("fullwidth-content", "U+4E2D")
  /\ group[3] = Token("fullwidth-content", "U+4E2D")
  /\ group[2].value = ","
  /\ group[2].modifiedValue = FullComma
  /\ group[2].modifiedType = "fullwidth-punctuation"
  /\ Len(group[2].validations) = 1

\* C15: when the half-width option holds a half-width quote, a group whose
\* delimiters are the matching full-width left and right quotes gets that
\* half-width quote as intended start and as intended end; an intended
\* delimiter is never undefined or empty after the handler ran.
C15_HalfwidthQuotesBothSides ==
  \A i \in Handled :
    LET token == group[i]
    IN  token.type = "group"
        => /\ \A half \in {HalfDouble, HalfSingle} :
                /\ includes(options.halfwidthPunctuation, half)
                /\ token.startValue = LeftOf(half)
                /\ token.endValue = RightOf(half)
                => /\ token.modifiedStartValue = half
                   /\ token.modifiedEndValue = half
           /\ token.modifiedStartValue \notin {Undefined, ""}
           /\ token.modifiedEndValue \notin {Undefined, ""}

\* The positions the second run has already handled.
HandledAgain == IF pc = "rerun" THEN 1..(tokenIndex - 1) ELSE {}

\* No pair is listed with its half-width form in the half-width option and
\* a full-width form in the full-width option.
ConflictFree ==
  /\ \A q \in Range(widthPairList) :
       ~(includes(options.halfwidthPunctuation, q[1])
           /\ includes(options.fullwidthPunctuation, q[2]))
  /\ \A q \in Range(widthSidePairList) :
       ~(includes(options.halfwidthPunctuation, q[1])
           /\ pairListed(options.fullwidthPunctuation, q[2], q[3]))

IdempotentWhenConflictFree ==
  ConflictFree => \A i \in HandledAgain : Untouched(group[i])

\* C11: idempotence: for every configuration, the handler run on a token
\* whose original value is the intended value of a first run with the same
\* configuration changes nothing and produces no validation.
C11_Idempotent == \A i \in HandledAgain : Untouched(group[i])

(***************************************************************************)
(* Claims about the extractor, checked under SpecMd.                       *)
(***************************************************************************)
Parsed == pc = "parsed"

\* The mark the claim expects for a span inside a block, given its label.
ExpectedSpanMark(span, block, label) ==
  [type |-> "raw", meta |-> label,
   startIndex |-> span.index - block.start,
   endIndex |-> span.index - block.start + span.length,
   startValue |-> span.originValue,
   endValue |-> <<>>]

FullyInside(span, block) ==
  block.start <= span.index /\ span.index + span.length <= block.end

\* The marks expected in `block` for the pending spans, in the spans' order;
\* byName chooses the span's name as the label, else its meta.
RECURSIVE ExpectedSpanMarks(_, _, _)
ExpectedSpanMarks(spans, block, byName) ==
  IF spans = <<>> THEN <<>>
  ELSE (IF FullyInside(Head(spans), block)
          THEN <<ExpectedSpanMark(Head(spans), block,
                                  IF byName THEN Head(spans).name ELSE Head(spans).meta)>>
          ELSE <<>>)
       \o ExpectedSpanMarks(Tail(spans), block, byName)

\* The marks of `block` that carry the text of one of the spans.
MarksOfSpans(spans, block) ==
  LET FromSpan(m) == \E k \in 1..Len(spans) : m.startValue = spans[k].originValue
  IN  SelectSeq(block.marks, FromSpan)

SpansReinjected(spans, blocks, byName) ==
  \A b \in 1..Len(blocks) :
    MarksOfSpans(spans, blocks[b]) = ExpectedSpanMarks(spans, blocks[b], byName)

MdParserStep == pc = "masked" /\ pc' = "parsed"

\* C5 as stated: after mark discovery every masked span fully inside a block
\* is one raw mark of that block, labelled with the span's name, at
\* [index - start, index - start + length) with the span's original text;
\* other spans give no mark, and the pending list is empty afterwards.
C5_SpansReinjectedByName ==
  [][MdParserStep =>
       /\ SpansReinjected(data.ignoredByParsers, data'.blocks, TRUE)
       /\ data'.ignoredByParsers = <<>>]_vars

\* C5, amended: as above, the mark's label being the span's meta
\* (`hexo-<name>` for a span of the hexo pass), not its name.
C5_SpansReinjectedByMeta ==
  [][MdParserStep =>
       /\ SpansReinjected(data.ignoredByParsers, data'.blocks, FALSE)
       /\ data'.ignoredByParsers = <<>>]_vars

C5_Witness ==
  /\ Parsed
  /\ doc = <<[kind |-> "code", inlines |-> <<"hexo">>],
             [kind |-> "paragraph", inlines |-> <<"text", "hexo">>]>>
  /\ Len(data.blocks) = 1
  /\ Len(data.blocks[1].marks) = 1
  /\ data.blocks[1].marks[1].meta = <<"h", "e", "x", "o", "-", "x">>
  /\ data.blocks[1].marks[1].startIndex = 2
  /\ data.ignoredByParsers = <<>>

\* A document that is one paragraph, and its inline items.
OneParagraph == Len(doc) = 1 /\ doc[1].kind = "paragraph"

Inlines == doc[1].inlines

\* Offset of inline item k inside the paragraph, and of its end.
RECURSIVE OffsetOf(_, _)
OffsetOf(ks, k) ==
  IF k = 1 THEN 0 ELSE OffsetOf(ks, k - 1) + Len(InlineSource(ks[k - 1]))

EndOffsetOf(ks, k) == OffsetOf(ks, k) + Len(InlineSource(ks[k]))

\* Number of unresolved openers before item k.
RECURSIVE Depth(_, _)
Depth(ks, k) ==
  IF k = 1 THEN 0
  ELSE LET before == Depth(ks, k - 1)
       IN  CASE ks[k - 1] = "open"  -> before + 1
             [] ks[k - 1] = "close" -> Max(before - 1, 0)
             [] OTHER               -> before

PairedCloser(ks, j) == ks[j] = "close" /\ Depth(ks, j) > 0

OrphanCloser(ks, j) == ks[j] = "close" /\ Depth(ks, j) = 0

\* The most recently pushed still-unresolved opener before closer j.
Opener(ks, j) ==
  LET cands == { i \in 1..(j - 1) : ks[i] = "open" /\ Depth(ks, i) = Depth(ks, j) - 1 }
  IN  CHOOSE i \in cands : \A c \in cands : c <= i

MarksStartingAt(marks, offset) == { m \in 1..Len(marks) : marks[m].startIndex = offset }

\* C6: within a block every closing-tag mark is paired with the most recently
\* pushed still-unresolved opening-tag mark, and every pair is one raw mark
\* from the opener's start offset to the closer's end offset, with no mark
\* left for the closer.
C6_CodePairsMerged ==
  (Parsed /\ OneParagraph) =>
    LET marks == data.blocks[1].marks
    IN  \A j \in 1..Len(Inlines) :
          PairedCloser(Inlines, j) =>
            LET i == Opener(Inlines, j)
            IN  /\ MarksStartingAt(marks, OffsetOf(Inlines, j)) = {}
                /\ Cardinality(MarksStartingAt(marks, OffsetOf(Inlines, i))) = 1
                /\ \A m \in MarksStartingAt(marks, OffsetOf(Inlines, i)) :
                     /\ marks[m].type = "raw"
                     /\ marks[m].endIndex = EndOffsetOf(Inlines, j)

C6_Witness ==
  /\ Parsed /\ OneParagraph
  /\ Inlines = <<"open", "open", "close", "close">>
  /\ Len(data.blocks[1].marks) = 2
  /\ data.blocks[1].marks[1].startIndex = 0
  /\ data.blocks[1].marks[1].endIndex = 26
  /\ data.blocks[1].marks[2].startIndex = 6
  /\ data.blocks[1].marks[2].endIndex = 19

RemoveAt(seq, k) == SubSeq(seq, 1, k - 1) \o SubSeq(seq, k + 1, Len(seq))

\* The syntax tree of the paragraph without its k-th inline node.
TreeWithout(k) ==
  LET tree == mdast(doc)
  IN  [tree EXCEPT !.children[1].children = RemoveAt(@, k)]

\* C7: a closing-tag mark met while no opener is unresolved produces no mark,
\* and every other mark of the block is what it is without that node.
C7_OrphanCloserDropped ==
  (Parsed /\ OneParagraph) =>
    \A j \in 1..Len(Inlines) :
      OrphanCloser(Inlines, j) =>
        /\ MarksStartingAt(data.blocks[1].marks, OffsetOf(Inlines, j)) = {}
        /\ data.blocks = mdParser([data EXCEPT !.blocks = <<>>], TreeWithout(j)).blocks

C7_Witness ==
  /\ Parsed /\ OneParagraph
  /\ Inlines = <<"close", "open", "em", "close">>
  /\ Len(data.blocks[1].marks) = 3
  /\ data.blocks[1].marks[1].startIndex = 7
  /\ data.blocks[1].marks[1].endIndex = 25

\* The paragraph, heading and table-cell nodes below `node` in document
\* order, none taken from below another one, front matter left out.
LeafBlockTypes == {"paragraph", "heading", "tableCell"}

RECURSIVE LeafBlocksBelow(_)
RECURSIVE LeafBlocksAmong(_)
LeafBlocksBelow(node) ==
  IF "children" \in DOMAIN node THEN LeafBlocksAmong(node.children) ELSE <<>>

LeafBlocksAmong(nodes) ==
  IF nodes = <<>> THEN <<>>
  ELSE (IF Head(nodes).type = "yaml" THEN <<>>
        ELSE IF Head(nodes).type \in LeafBlockTypes THEN <<Head(nodes)>>
        ELSE LeafBlocksBelow(Head(nodes)))
       \o LeafBlocksAmong(Tail(nodes))

\* C8: block discovery returns, in document order, exactly one block for
\* every paragraph, heading and table-cell node that is not inside another
\* collected block, and none for a front-matter node.
C8_BlockDiscovery ==
  Parsed =>
    LET nodes == LeafBlocksBelow(mdast(doc))
    IN  /\ Len(data.blocks) = Len(nodes)
        /\ \A b \in 1..Len(nodes) :
             /\ data.blocks[b].start = nodes[b].position.start.offset
             /\ data.blocks[b].end = nodes[b].position.end.offset

(***************************************************************************)
(* Claims about the reassembler, checked under SpecReplace.                *)
(***************************************************************************)
Replaced == pc = "replaced"

WellFormedBlocks ==
  WithinDocument(str, inBlocks) /\ InDocumentOrder(inBlocks)

\* Sorted by start, contiguous, non-overlapping, from 0 to the document length.
PieceCoverage(pieces, length) ==
  /\ Len(pieces) >= 1
  /\ pieces[1].start = 0
  /\ pieces[Len(pieces)].end = length
  /\ \A i \in 1..Len(pieces) : pieces[i].start <= pieces[i].end
  /\ \A i \in 1..(Len(pieces) - 1) :
        /\ pieces[i + 1].start = pieces[i].end
        /\ pieces[i].start <= pieces[i + 1].start

\* C1: for blocks given in document order, pairwise non-overlapping and inside
\* the document, the pieces returned by replaceBlocks are sorted, contiguous,
\* non-overlapping, start at 0 and end at the document length; with no block
\* the list is the single verbatim piece [0, length).
C1_PieceCoverage ==
  (Replaced /\ WellFormedBlocks) =>
    /\ PieceCoverage(out.pieces, Len(str))
    /\ (Len(inBlocks) = 0 =>
          out.pieces = <<[nonBlock |-> TRUE, start |-> 0, end |-> Len(str), value |-> str]>>)

C1_Witness ==
  /\ Replaced /\ WellFormedBlocks
  /\ Len(inBlocks) = 2
  /\ Len(out.pieces) = 5
  /\ PieceCoverage(out.pieces, Len(str))

Unchanged(s, blocks) ==
  \A i \in 1..Len(blocks) :
    blocks[i].value = Substring(s, blocks[i].start, blocks[i].end)

\* C3: when every block's value is the original text between its start and
\* end, the returned text (the pieces' values joined in order) is the
\* original document, and every verbatim piece's value is the original text
\* between its start and end.  Blocks are in document order, as the
\* extractor produces them.
C3_UnchangedRoundTrip ==
  (Replaced /\ WellFormedBlocks /\ Unchanged(str, inBlocks)) =>
    /\ out.value = str
    /\ out.value = JoinValues(out.pieces)
    /\ \A i \in 1..Len(out.pieces) :
          ~isBlock(out.pieces[i]) =>
            out.pieces[i].value = SubSeq(str, out.pieces[i].start + 1, out.pieces[i].end)

C3_Witness ==
  /\ Replaced /\ WellFormedBlocks /\ Unchanged(str, inBlocks)
  /\ Len(inBlocks) = 2
  /\ inBlocks[1].start > 0
  /\ inBlocks[1].end > inBlocks[1].start
  /\ inBlocks[2].start > inBlocks[1].end
  /\ inBlocks[2].end < Len(str)
  /\ out.value = str

\* Insertion of a block into a list sorted by start (stable).
RECURSIVE InsertByStart(_, _)
InsertByStart(b, sorted) ==
  IF sorted = <<>> THEN <<b>>
  ELSE IF b.start < Head(sorted).start THEN <<b>> \o sorted
  ELSE <<Head(sorted)>> \o InsertByStart(b, Tail(sorted))

RECURSIVE SortByStart(_)
SortByStart(blocks) ==
  IF blocks = <<>> THEN <<>>
  ELSE InsertByStart(blocks[Len(blocks)], SortByStart(SubSeq(blocks, 1, Len(blocks) - 1)))

DistinctStarts(blocks) ==
  \A i, j \in 1..Len(blocks) : i # j => blocks[i].start # blocks[j].start

\* C4: the reassembler sorts blocks by start: whatever the order in which a
\* set of non-overlapping blocks is passed, the pieces and the text are those
\* obtained for the blocks in ascending start order.
C4_OrderIndependent ==
  (Replaced /\ WithinDocument(str, inBlocks) /\ DistinctStarts(inBlocks)) =>
    out = replaceBlocks(str, SortByStart(inBlocks))

MarkWithinBlock(mark, block) ==
  /\ 0 <= mark.startIndex
  /\ mark.startIndex <= mark.endIndex
  /\ mark.endIndex <= Len(block.value)

\* C14: every mark attached to a block after mark discovery satisfies
\* 0 <= startIndex <= endIndex <= length of the block's text, an opening
\* <code> tag without a closing tag included.
C14_MarksWithinBlock ==
  Parsed =>
    \A i \in 1..Len(data.blocks) :
      \A k \in 1..Len(data.blocks[i].marks) :
        MarkWithinBlock(data.blocks[i].marks[k], data.blocks[i])

\* The same, for paragraphs in which every <code> has its </code>.
EveryCodeClosed ==
  \A i \in 1..Len(doc) :
    \A j \in 1..Len(doc[i].inlines) :
      doc[i].inlines[j] = "open" =>
        \E c \in (j + 1)..Len(doc[i].inlines) :
          /\ doc[i].inlines[c] = "close"
          /\ Cardinality({ x \in (j + 1)..(c - 1) : doc[i].inlines[x] = "open" })
               = Cardinality({ x \in (j + 1)..(c - 1) : doc[i].inlines[x] = "close" })

MarksWithinBlockWhenClosed == EveryCodeClosed => C14_MarksWithinBlock

(***************************************************************************)
(* Claims about nodes without position, checked under SpecUnpositioned.    *)
(***************************************************************************)
\* An inline node without position yields no mark.
UnpositionedInlineNoMark ==
  pc \in {"parsed", "replace", "replaced"} =>
    \A i \in 1..Len(doc) :
      doc[i].without = "inline" => data.blocks[i].marks = <<>>

\* A block node without position yields no lintable content.
UnpositionedBlockNoContent ==
  pc \in {"parsed", "replace", "replaced"} =>
    \A i \in 1..Len(doc) :
      doc[i].without = "block"
        => data.blocks[i].value = <<>> /\ data.blocks[i].marks = <<>>

\* The final text neither duplicates nor loses a part of the document.
UnpositionedCoverage ==
  Replaced => PieceCoverage(out.pieces, Len(input)) /\ out.value = input

\* C13: a node without position is skipped: an inline node without position
\* yields no mark, a block node without position yields no content, and the
\* blocks extracted together with it still give the reassembler's piece
\* coverage, so that the final text is the document.
C13_UnpositionedSkipped ==
  UnpositionedInlineNoMark /\ UnpositionedBlockNoContent /\ UnpositionedCoverage

====
